---------------------------- MODULE Spec2Model ----------------------------
(***************************************************************************)
(* State-machine model of the FastAPI-labs snapshot applications.  Every   *)
(* snapshot under src/snapshots is a separate application with its own     *)
(* module-level state; `app` says which application the process runs.      *)
(* One action models one request handled to completion: decoding and       *)
(* validation of the inputs, the route function, the shaping of the        *)
(* returned value by the declared response_model, and the translation of   *)
(* a raised exception into a response.                                     *)
(***************************************************************************)
EXTENDS Integers, Sequences, FiniteSets, TLC

VARIABLES
    app,            \* the snapshot application that is running
    items_db_12,    \* 12_main.py items_db: id -> {name, price}
    item_next_id,   \* 12_main.py item_next_id
    items_db_06,    \* 06_main.py items_db: id -> validated item
    fake_users_db,  \* 10_main.py fake_users_db: username -> UserIn
    uploads,        \* 14_main.py: the files written, as a set of paths
    req,            \* the request handled last
    resp,           \* the response sent for it
    tasks           \* the POST /items/ requests in flight on the event loop

vars ==
    <<app, items_db_12, item_next_id, items_db_06, fake_users_db, uploads, req, resp, tasks>>

-----------------------------------------------------------------------------
(* Bounds of the model *)

\* the largest id create_item of 12_main.py assigns in the model
MaxId == 3
\* the largest number of items 06_main.py stores in the model
MaxItems06 == 2
\* the largest number of files in one multi-file upload
MaxFiles == 2
\* the largest number of '/'-separated segments of a requested file name
MaxSegs == 3
\* the number of POST /items/ requests that are in flight together
MaxTasks == 2

-----------------------------------------------------------------------------
(* Generic helpers *)

Range(s) == {s[i] : i \in DOMAIN s}

\* the sequences over S of length 0..n
SeqUpTo(S, n) == UNION {[1..k -> S] : k \in 0..n}

\* Python None / a JSON null
None == "<None>"
\* a raw JSON value of a request body: a string, a number, or a missing key
JStr(s) == [t |-> "str", s |-> s, n |-> 0]
JNum(n) == [t |-> "num", s |-> "", n |-> n]
Absent == [t |-> "absent", s |-> "", n |-> 0]

\* a raw path segment bound to a path parameter: digits, or something else
PInt(n) == [t |-> "int", n |-> n]
PBad == [t |-> "str", n |-> 0]

-----------------------------------------------------------------------------
(* Framework behaviour the route declarations rely on *)

\* one entry of RequestValidationError.errors()
Err(loc, type, msg) == [loc |-> loc, type |-> type, msg |-> msg]

\* str(n) for the small numbers of the model
str(n) == <<"0", "1", "2", "3", "4", "5", "6", "7", "8", "9">>[n + 1]

\* response headers: a set of <<name, value>>
NoHeaders == {}

\* An exception object.  A text (detail, message, str(e)) is a sequence of
\* fragments, the pieces an f-string concatenates.  context is the text of
\* the exception that was being handled when this one was raised.
MkExc(kind, status_code, detail, headers, errors, name, text, context) ==
    [kind |-> kind, status_code |-> status_code, detail |-> detail, headers |-> headers,
     errors |-> errors, name |-> name, text |-> text, context |-> context]
NoExc == MkExc("none", 0, <<>>, NoHeaders, <<>>, "", <<>>, <<>>)
RequestValidationError(errors) ==
    MkExc("RequestValidationError", 0, <<>>, NoHeaders, errors, "", <<>>, <<>>)
HTTPException(status_code, detail, headers, context) ==
    MkExc("HTTPException", status_code, detail, headers, <<>>, "", detail, context)
\* an exception of any other class, with its message
OtherException(kind, text) == MkExc(kind, 0, <<>>, NoHeaders, <<>>, "", text, <<>>)

\* the state of the service before any request
NoReq == [op |-> "none"]
NoResp == [status |-> 0, headers |-> NoHeaders, body |-> [kind |-> "none"],
           by |-> "none", invoked |-> FALSE, ran |-> <<>>, exc |-> NoExc]

\* A response: status, headers and body go to the client; by names the
\* function that built it, invoked says whether the route function was
\* called, ran lists the exception handlers that were executed and exc is
\* the exception they were given.
Returned(status, body) ==
    [status |-> status, headers |-> NoHeaders, body |-> body,
     by |-> "route", invoked |-> TRUE, ran |-> <<>>, exc |-> NoExc]

JsonObject(obj) == [kind |-> "object", obj |-> obj]

\* the function registered with @app.exception_handler for a class
RegisteredName(kind) ==
    IF kind = "UnicornException" THEN "unicorn_exception_handler"
    ELSE "validation_exception_handler"

\* a lookup that ignores the handlers the application registered
HandlerFor_unregistered(handlers, exc) ==
    IF exc.kind = "HTTPException" THEN "http_exception_handler"
    ELSE IF exc.kind = "RequestValidationError" THEN "request_validation_exception_handler"
    ELSE "ServerErrorMiddleware"

\* the handler of an exception: the one registered for its class, else
\* FastAPI's handler of HTTPException or of RequestValidationError, else
\* Starlette's ServerErrorMiddleware
HandlerFor(handlers, exc) ==
    IF exc.kind \in handlers THEN RegisteredName(exc.kind)
    ELSE IF exc.kind = "HTTPException" THEN "http_exception_handler"
    ELSE IF exc.kind = "RequestValidationError" THEN "request_validation_exception_handler"
    ELSE "ServerErrorMiddleware"

\* what a handler answers: <<status, headers, body>>
HandlerOutput(handler, exc, url) ==
    IF handler = "unicorn_exception_handler"
    THEN <<418, NoHeaders,
           JsonObject([error_type |-> <<"Unicorn Error">>, failed_item_name |-> exc.name,
                       message |-> exc.text, request_url |-> url])>>
    ELSE IF handler = "validation_exception_handler"
    THEN <<400, NoHeaders,
           JsonObject([message |-> <<"Invalid input provided.">>, details |-> exc.errors])>>
    ELSE IF handler = "http_exception_handler"
    THEN <<exc.status_code, exc.headers, JsonObject([detail |-> exc.detail])>>
    ELSE IF handler = "request_validation_exception_handler"
    THEN <<422, NoHeaders, JsonObject([detail |-> exc.errors])>>
    ELSE <<500, NoHeaders, [kind |-> "text", text |-> <<"Internal Server Error">>]>>

\* the response to an exception raised while a request is handled: one
\* handler is looked up and run, and what it returns is sent
Raised(handlers, exc, invoked, url) ==
    LET handler == HandlerFor(handlers, exc)
        out == HandlerOutput(handler, exc, url)
    IN [status |-> out[1], headers |-> out[2], body |-> out[3],
        by |-> handler, invoked |-> invoked, ran |-> <<handler>>, exc |-> exc]

\* the applications that register no exception handler
NoHandlers == {}
Default422(errors) == Raised(NoHandlers, RequestValidationError(errors), FALSE, <<>>)
HttpError(status, detail) ==
    Raised(NoHandlers, HTTPException(status, detail, NoHeaders, <<>>), TRUE, <<>>)
\* response_model validation of the returned value failed
ServerError ==
    Raised(NoHandlers,
           OtherException("ResponseValidationError", <<"response validation failed">>),
           TRUE, <<>>)

\* a response_model: its required fields and its optional ones (default None)
Schema(required, optional) == [required |-> required, optional |-> optional]

\* response_model: can the returned value be read as the schema
Conforms(schema, value) == schema.required \subseteq DOMAIN value

\* a projection that copies the whole returned value
Project_all(schema, value) == value

\* response_model: a new value holding the declared fields only, read by
\* name from the returned value
Project(schema, value) ==
    [f \in schema.required \cup (schema.optional) |->
        IF f \in DOMAIN value THEN value[f] ELSE None]

\* the response for a value returned under response_model=schema
Shaped(status, schema, value) ==
    IF Conforms(schema, value)
    THEN Returned(status, JsonObject(Project(schema, value)))
    ELSE ServerError    \* ResponseValidationError, no handler registered

\* the response for a list returned under response_model=List[schema]
ShapedList(status, schema, values) ==
    IF \A i \in DOMAIN values : Conforms(schema, values[i])
    THEN Returned(status, [kind |-> "list",
                           items |-> [i \in DOMAIN values |-> Project(schema, values[i])]])
    ELSE ServerError

\* item_id: int declared as a path parameter
PathIntErrors(raw) ==
    IF raw.t = "int" THEN <<>>
    ELSE <<Err(<<"path", "item_id">>, "int_parsing",
               "Input should be a valid integer, unable to parse string as an integer")>>

\* a body that is sent as it is: its media type and its text
Content(media_type, content) == [kind |-> "content", media_type |-> media_type, content |-> content]

\* what a route function returns: a Response object built by the function,
\* or any other value
ResponseObject(status_code, headers, body) ==
    [is_response |-> TRUE, status_code |-> status_code, headers |-> headers, body |-> body]
Value(value) == [is_response |-> FALSE, value |-> value]

\* the declaration of a route: status_code, response_class and response_model
NoModel == Schema({}, {})
Route(status_code, response_class, response_model) ==
    [status_code |-> status_code, response_class |-> response_class,
     response_model |-> response_model]

\* the response built by the declared response_class from a returned value
Rendered(route, value) ==
    IF route.response_class = "HTMLResponse"
    THEN Returned(route.status_code, Content("text/html; charset=utf-8", value))
    ELSE IF route.response_class = "PlainTextResponse"
    THEN Returned(route.status_code, Content("text/plain; charset=utf-8", value))
    ELSE IF route.response_model = NoModel
    THEN Returned(route.status_code, JsonObject(value))
    ELSE Shaped(route.status_code, route.response_model, value)

\* a framework that applies the declaration of the route to whatever the
\* route function returned
serialize_declared(route, result) ==
    IF result.is_response
    THEN Rendered(route, IF route.response_class = "JSONResponse"
                         THEN result
                         ELSE result.body.content)
    ELSE Rendered(route, result.value)

\* the response for what a route function returned: a Response object is
\* sent as it is, any other value goes through the declaration of the route
serialize(route, result) ==
    IF result.is_response
    THEN [Returned(result.status_code, result.body) EXCEPT !.headers = result.headers]
    ELSE Rendered(route, result.value)

-----------------------------------------------------------------------------
(* 12_main.py: create / delete / update on items_db with item_next_id *)

\* class Item(BaseModel): name: str; price: float
Item_12 == Schema({"name", "price"}, {})

Names12 == {"Laptop", "keyboard"}
Prices12 == {75, 1200}
RawBodies12 ==
    [name : {JStr(s) : s \in Names12} \cup {Absent},
     price : {JNum(p) : p \in Prices12} \cup {JStr("abc")}]
RawIds12 == {PInt(i) : i \in 1..(MaxId + 1)} \cup {PBad}

\* validation of a JSON body against Item of 12_main.py, in field order
ItemErrors_12(raw) ==
    (IF raw.name.t = "absent" THEN <<Err(<<"body", "name">>, "missing", "Field required")>>
     ELSE IF raw.name.t # "str"
          THEN <<Err(<<"body", "name">>, "string_type", "Input should be a valid string")>>
          ELSE <<>>)
    \o
    (IF raw.price.t = "absent" THEN <<Err(<<"body", "price">>, "missing", "Field required")>>
     ELSE IF raw.price.t # "num"
          THEN <<Err(<<"body", "price">>, "float_parsing",
                     "Input should be a valid number, unable to parse string as a number")>>
          ELSE <<>>)

\* item.model_dump()
model_dump_12(raw) == [name |-> raw.name.s, price |-> raw.price.n]

Unchanged12 == UNCHANGED <<items_db_12, item_next_id>>
OtherApps12 == UNCHANGED <<app, tasks, items_db_06, fake_users_db, uploads>>

\* a create_item that takes the id from the size of the store
create_item_12_by_len(raw) ==
    /\ app = "12_main"
    /\ req' = [op |-> "create_item", body |-> raw]
    /\ IF ItemErrors_12(raw) # <<>>
       THEN /\ resp' = Default422(ItemErrors_12(raw))
            /\ Unchanged12
       ELSE /\ item_next_id <= MaxId
            /\ LET id == Cardinality(DOMAIN items_db_12) + 1
                   created_item_info == [id |-> id] @@ model_dump_12(raw)
               IN /\ items_db_12' = [k \in DOMAIN items_db_12 \cup {id} |->
                                        IF k = id THEN model_dump_12(raw) ELSE items_db_12[k]]
                  /\ item_next_id' = item_next_id + 1
                  /\ resp' = Shaped(201, Item_12, created_item_info)
    /\ OtherApps12

\* POST /items/
create_item_12(raw) ==
    /\ app = "12_main"
    /\ req' = [op |-> "create_item", body |-> raw]
    /\ IF ItemErrors_12(raw) # <<>>
       THEN /\ resp' = Default422(ItemErrors_12(raw))
            /\ Unchanged12
       ELSE /\ item_next_id <= MaxId
            /\ LET created_item_info == [id |-> item_next_id] @@ model_dump_12(raw)
               IN /\ items_db_12' = (item_next_id :> model_dump_12(raw)) @@ items_db_12
                  /\ item_next_id' = item_next_id + 1
                  /\ resp' = Shaped(201, Item_12, created_item_info)
    /\ OtherApps12

\* DELETE /items/{item_id}
delete_item_12(rawid) ==
    /\ app = "12_main"
    /\ req' = [op |-> "delete_item", item_id |-> rawid]
    /\ IF PathIntErrors(rawid) # <<>>
       THEN /\ resp' = Default422(PathIntErrors(rawid))
            /\ Unchanged12
       ELSE IF rawid.n \in DOMAIN items_db_12
            THEN /\ items_db_12' = [k \in DOMAIN items_db_12 \ {rawid.n} |-> items_db_12[k]]
                 /\ resp' = Returned(204, [kind |-> "empty"])
                 /\ UNCHANGED item_next_id
            ELSE /\ resp' = HttpError(404, <<"Item not found">>)
                 /\ Unchanged12
    /\ OtherApps12

\* the object update_item returns (it does not raise it) when nothing changed
HTTPException_304 == [status_code |-> 304, detail |-> "Not Modified", headers |-> None]

\* PUT /items/{item_id}
update_item_12(rawid, raw) ==
    /\ app = "12_main"
    /\ req' = [op |-> "update_item", item_id |-> rawid, body |-> raw]
    /\ LET errors == PathIntErrors(rawid) \o ItemErrors_12(raw)
       IN IF errors # <<>>
          THEN /\ resp' = Default422(errors)
               /\ Unchanged12
          ELSE IF rawid.n \notin DOMAIN items_db_12
               THEN /\ resp' = HttpError(404, <<"Item not found">>)
                    /\ Unchanged12
               ELSE IF items_db_12[rawid.n] = model_dump_12(raw)
                    THEN /\ resp' = Shaped(200, Item_12, HTTPException_304)
                         /\ Unchanged12
                    ELSE /\ items_db_12' = [items_db_12 EXCEPT ![rawid.n] = model_dump_12(raw)]
                         /\ resp' = Shaped(200, Item_12, items_db_12'[rawid.n])
                         /\ UNCHANGED item_next_id
    /\ OtherApps12

legacy_content == <<"<legacy><name>Old Data</name><price>10.0</price></legacy>">>

\* GET /legacy-data
get_legacy_data ==
    /\ app = "12_main"
    /\ req' = [op |-> "get_legacy_data"]
    /\ resp' = serialize(Route(200, "JSONResponse", Item_12),
                         ResponseObject(200, NoHeaders,
                                        Content("application/xml", legacy_content)))
    /\ Unchanged12
    /\ OtherApps12

Next12 ==
    \/ \E raw \in RawBodies12 : create_item_12(raw)
    \/ \E rawid \in RawIds12 : delete_item_12(rawid)
    \/ \E rawid \in RawIds12, raw \in RawBodies12 : update_item_12(rawid, raw)
    \/ get_legacy_data

-----------------------------------------------------------------------------
(* 11_main.py: response classes and Response objects returned by routes *)

OtherApps11 ==
    UNCHANGED <<app, tasks, items_db_12, item_next_id, items_db_06, fake_users_db, uploads>>

\* the page of read_html, by its elements
html_content == <<"<html>", "<h1>Hello from FastAPI!</h1>",
                  "<p>This is an HTML response.</p>", "</html>">>

\* the classes of fastapi.responses, called by the route functions
HTMLResponse(content) ==
    ResponseObject(200, NoHeaders, Content("text/html; charset=utf-8", content))
PlainTextResponse(content, status_code) ==
    ResponseObject(status_code, NoHeaders, Content("text/plain; charset=utf-8", content))
RedirectResponse(url, status_code) ==
    ResponseObject(status_code, {<<"location", url>>}, [kind |-> "empty"])
JSONResponse(content, status_code) ==
    ResponseObject(status_code, NoHeaders, JsonObject(content))

\* GET /html
read_html ==
    /\ app = "11_main"
    /\ req' = [op |-> "read_html"]
    /\ resp' = serialize(Route(200, "HTMLResponse", NoModel), Value(html_content))
    /\ OtherApps11

\* GET /text
read_text ==
    /\ app = "11_main"
    /\ req' = [op |-> "read_text"]
    /\ resp' = serialize(Route(200, "JSONResponse", NoModel),
                         PlainTextResponse(<<"This is a plain text response from FastAPI.">>, 200))
    /\ OtherApps11

\* GET /redirect/docs
redirect_to_docs ==
    /\ app = "11_main"
    /\ req' = [op |-> "redirect_to_docs"]
    /\ resp' = serialize(Route(200, "JSONResponse", NoModel), RedirectResponse("/docs", 307))
    /\ OtherApps11

\* GET /redirect/external
redirect_external ==
    /\ app = "11_main"
    /\ req' = [op |-> "redirect_external"]
    /\ resp' = serialize(Route(200, "JSONResponse", NoModel),
                         RedirectResponse("<https://fastapi.tiangolo.com/>", 302))
    /\ OtherApps11

\* GET /json/custom
read_custom_json ==
    /\ app = "11_main"
    /\ req' = [op |-> "read_custom_json"]
    /\ resp' = serialize(Route(200, "JSONResponse", NoModel),
                         Value([message |-> "This is a custom JSON response using response_class"]))
    /\ OtherApps11

\* GET /json/created
create_resource ==
    /\ app = "11_main"
    /\ req' = [op |-> "create_resource"]
    /\ resp' = serialize(Route(201, "JSONResponse", NoModel),
                         JSONResponse([resource_id |-> 123, status |-> "created"], 201))
    /\ OtherApps11

\* the raw values of the query parameter return_html: bool = False
RawBools == {"absent", "true", "false", "1", "0", "abc"}
BoolErrors(raw) ==
    IF raw \in {"absent", "true", "false", "1", "0"} THEN <<>>
    ELSE <<Err(<<"query", "return_html">>, "bool_parsing",
               "Input should be a valid boolean, unable to interpret input")>>
Bool(raw, default) == IF raw = "absent" THEN default ELSE raw \in {"true", "1"}

\* GET /mixed-response
mixed_response(raw) ==
    /\ app = "11_main"
    /\ req' = [op |-> "mixed_response", return_html |-> raw]
    /\ IF BoolErrors(raw) # <<>>
       THEN resp' = Default422(BoolErrors(raw))
       ELSE IF Bool(raw, FALSE)
            THEN resp' = serialize(Route(200, "PlainTextResponse", NoModel),
                                   HTMLResponse(<<"<h1>This is HTML overriding PlainText</h1>">>))
            ELSE resp' = serialize(Route(200, "PlainTextResponse", NoModel),
                                   Value(<<"This is the default PlainText response.">>))
    /\ OtherApps11

Next11 ==
    \/ read_html
    \/ read_text
    \/ redirect_to_docs
    \/ redirect_external
    \/ read_custom_json
    \/ create_resource
    \/ \E raw \in RawBools : mixed_response(raw)

-----------------------------------------------------------------------------
(* 10_main.py: response_model filtering of users and items *)

\* class UserOut(BaseModel): username, email, full_name = None
UserOut == Schema({"username", "email"}, {"full_name"})
\* class ItemPublic(BaseModel): name, price
ItemPublic == Schema({"name", "price"}, {})

\* fake_items_db: ItemInternal objects
fake_items_db ==
    (1 :> [name |-> "keyboard", price |-> 75, owner_id |-> 1, secret_code |-> "abc"]) @@
    (2 :> [name |-> "Mouse", price |-> 25, owner_id |-> 1, secret_code |-> "def"]) @@
    (3 :> [name |-> "Monitor", price |-> 300, owner_id |-> 2, secret_code |-> "ghi"])

Usernames == {"alice", "bob"}
\* the e-mail addresses of the model that EmailStr accepts
ValidEmails == {"a@x.io"}
RawUsers ==
    [username : {JStr(u) : u \in Usernames},
     password : {JStr("pw1"), Absent},
     email : {JStr("a@x.io"), JStr("nope")},
     full_name : {JStr("Al"), Absent}]
RawIds10 == {PInt(i) : i \in 1..4} \cup {PBad}

\* validation of a JSON body against UserIn, in field order
UserInErrors(raw) ==
    (IF raw.username.t = "absent"
     THEN <<Err(<<"body", "username">>, "missing", "Field required")>> ELSE <<>>)
    \o
    (IF raw.password.t = "absent"
     THEN <<Err(<<"body", "password">>, "missing", "Field required")>> ELSE <<>>)
    \o
    (IF raw.email.t = "absent"
     THEN <<Err(<<"body", "email">>, "missing", "Field required")>>
     ELSE IF raw.email.s \notin ValidEmails
          THEN <<Err(<<"body", "email">>, "value_error",
                     "value is not a valid email address")>>
          ELSE <<>>)

\* the UserIn object built from a valid body: full_name defaults to None
UserIn(raw) ==
    [username |-> raw.username.s, password |-> raw.password.s, email |-> raw.email.s,
     full_name |-> IF raw.full_name.t = "absent" THEN None ELSE raw.full_name.s]

OtherApps10 == UNCHANGED <<app, tasks, items_db_12, item_next_id, items_db_06, uploads>>

\* POST /users/
create_user(raw) ==
    /\ app = "10_main"
    /\ req' = [op |-> "create_user", body |-> raw]
    /\ IF UserInErrors(raw) # <<>>
       THEN /\ resp' = Default422(UserInErrors(raw))
            /\ UNCHANGED fake_users_db
       ELSE LET user == UserIn(raw)
            IN /\ fake_users_db' = [u \in DOMAIN fake_users_db \cup {user.username} |->
                                      IF u = user.username THEN user ELSE fake_users_db[u]]
               /\ resp' = Shaped(201, UserOut, user)
    /\ OtherApps10

\* GET /users/{username}
read_user(username) ==
    /\ app = "10_main"
    /\ req' = [op |-> "read_user", username |-> username]
    /\ IF username \notin DOMAIN fake_users_db
       THEN resp' = HttpError(404, <<"User not found">>)
       ELSE resp' = Shaped(200, UserOut, fake_users_db[username])
    /\ UNCHANGED fake_users_db
    /\ OtherApps10

\* GET /items/
read_items ==
    /\ app = "10_main"
    /\ req' = [op |-> "read_items"]
    /\ resp' = ShapedList(200, ItemPublic, [i \in 1..3 |-> fake_items_db[i]])
    /\ UNCHANGED fake_users_db
    /\ OtherApps10

\* GET /items/{item_id}
read_single_item(rawid) ==
    /\ app = "10_main"
    /\ req' = [op |-> "read_single_item", item_id |-> rawid]
    /\ IF PathIntErrors(rawid) # <<>>
       THEN resp' = Default422(PathIntErrors(rawid))
       ELSE IF rawid.n \notin DOMAIN fake_items_db
            THEN resp' = HttpError(404, <<"Item not found">>)
            ELSE resp' = Shaped(200, ItemPublic, fake_items_db[rawid.n])
    /\ UNCHANGED fake_users_db
    /\ OtherApps10

Next10 ==
    \/ \E raw \in RawUsers : create_user(raw)
    \/ \E username \in Usernames \cup {"carol"} : read_user(username)
    \/ read_items
    \/ \E rawid \in RawIds10 : read_single_item(rawid)

-----------------------------------------------------------------------------
(* 15_main.py: file download.  A path is a sequence of characters; a file   *)
(* system node is the sequence of the names leading to it from "/".         *)

\* DOWNLOAD_DIR = "./downloadables/" (the directory name shortened to "d")
DOWNLOAD_DIR == <<".", "/", "d", "/">>
\* the working directory of the server process, "/w"
getcwd == <<"/", "w">>

\* the directories and the regular files of the machine
FsDirs == {<<>>, <<<<"w">>>>, <<<<"w">>, <<"d">>>>}
FsFiles == {<<<<"w">>, <<"d">>, <<"a">>>>,            \* /w/d/a
            <<<<"w">>, <<"d">>, <<"a", ".", "t">>>>,  \* /w/d/a.t
            <<<<"w">>, <<"p">>>>,                     \* /w/p, next to the root
            <<<<"p">>>>}                              \* /p
\* the download root as a node
RootNode == <<<<"w">>, <<"d">>>>

\* the index of the last occurrence of c in s, 0 when there is none
LastIndexOf(s, c) ==
    LET hits == {i \in DOMAIN s : s[i] = c}
    IN IF hits = {} THEN 0 ELSE CHOOSE i \in hits : \A j \in hits : j <= i

\* a basename that keeps the directory part of the path
basename_whole(path) == path

\* os.path.basename (posixpath): what follows the last "/"
basename(path) == SubSeq(path, LastIndexOf(path, "/") + 1, Len(path))

\* os.path.join (posixpath) of two components
join(a, b) ==
    IF b # <<>> /\ b[1] = "/" THEN b
    ELSE IF a = <<>> \/ a[Len(a)] = "/" THEN a \o b
    ELSE a \o <<"/">> \o b

\* str.startswith
startswith(s, prefix) ==
    Len(prefix) <= Len(s) /\ SubSeq(s, 1, Len(prefix)) = prefix

\* str.split("/")
RECURSIVE split(_)
split(path) ==
    LET slashes == {i \in DOMAIN path : path[i] = "/"}
    IN IF slashes = {} THEN <<path>>
       ELSE LET i == CHOOSE k \in slashes : \A j \in slashes : k <= j
            IN <<SubSeq(path, 1, i - 1)>> \o split(SubSeq(path, i + 1, Len(path)))

\* "/".join(comps)
RECURSIVE slashjoin(_)
slashjoin(comps) ==
    IF comps = <<>> THEN <<>>
    ELSE IF Len(comps) = 1 THEN comps[1]
    ELSE comps[1] \o <<"/">> \o slashjoin(Tail(comps))

\* the loop of posixpath.normpath over the components
RECURSIVE normcomps(_, _, _)
normcomps(comps, new, absolute) ==
    IF comps = <<>> THEN new
    ELSE LET c == Head(comps)
         IN IF c = <<>> \/ c = <<".">> THEN normcomps(Tail(comps), new, absolute)
            ELSE IF c # <<".", ".">>
                    \/ (~absolute /\ new = <<>>)
                    \/ (new # <<>> /\ new[Len(new)] = <<".", ".">>)
                 THEN normcomps(Tail(comps), Append(new, c), absolute)
                 ELSE IF new # <<>>
                      THEN normcomps(Tail(comps), SubSeq(new, 1, Len(new) - 1), absolute)
                      ELSE normcomps(Tail(comps), new, absolute)

\* os.path.normpath (posixpath; a path starting "//" is not in the model)
normpath(path) ==
    IF path = <<>> THEN <<".">>
    ELSE LET absolute == path[1] = "/"
             comps == normcomps(split(path), <<>>, absolute)
             joined == (IF absolute THEN <<"/">> ELSE <<>>) \o slashjoin(comps)
         IN IF joined = <<>> THEN <<".">> ELSE joined

\* os.path.abspath
abspath(path) == normpath(join(getcwd, path))

\* the kernel's walk of a path from a directory: the node reached, or
\* NoNode (ENOENT, ENOTDIR) when a component does not exist or is not a
\* directory; no node has "/" in a name
NoNode == <<<<"/">>>>
RECURSIVE walk(_, _)
walk(node, comps) ==
    IF comps = <<>> THEN node
    ELSE IF node \notin FsDirs THEN NoNode
    ELSE LET c == Head(comps)
         IN IF c = <<>> \/ c = <<".">> THEN walk(node, Tail(comps))
            ELSE IF c = <<".", ".">>
                 THEN walk(IF node = <<>> THEN node ELSE SubSeq(node, 1, Len(node) - 1),
                           Tail(comps))
                 ELSE IF Append(node, c) \in FsDirs \cup FsFiles
                      THEN walk(Append(node, c), Tail(comps))
                      ELSE NoNode

\* the node a path names for the server process
resolve(path) ==
    IF path = <<>> THEN NoNode
    ELSE IF path[1] = "/" THEN walk(<<>>, split(path))
    ELSE walk(walk(<<>>, split(getcwd)), split(path))

\* os.path.isfile
isfile(path) == resolve(path) \in FsFiles

\* mimetypes.guess_type(path)[0]: by the extension, None when unknown
guess_type(path) ==
    LET name == basename(path)
        dot == LastIndexOf(name, ".")
    IN IF dot > 1 /\ SubSeq(name, dot + 1, Len(name)) = <<"t">> THEN "text/plain" ELSE None

\* FileResponse(path, filename, media_type)
FileResponse(path, filename, media_type) ==
    Returned(200, [kind |-> "file", path |-> path, filename |-> filename,
                   media_type |-> media_type])

\* the requested names: 1..MaxSegs segments joined by "/"
NameSegs == {<<".", ".">>, <<>>, <<"a">>, <<"p">>}
FileNames == {slashjoin(segs) : segs \in SeqUpTo(NameSegs, MaxSegs) \ {<<>>}}

OtherApps15 == UNCHANGED <<app, tasks, items_db_12, item_next_id, items_db_06, fake_users_db, uploads>>

\* a download_basic that joins the name as given and compares with DOWNLOAD_DIR
download_basic_unsanitized(file_name) ==
    /\ app = "15_main"
    /\ req' = [op |-> "download_basic", file_name |-> file_name]
    /\ LET file_path == join(DOWNLOAD_DIR, file_name)
       IN IF ~isfile(file_path)
          THEN resp' = HttpError(404, <<"File not found">>)
          ELSE IF ~startswith(file_path, DOWNLOAD_DIR)
               THEN resp' = HttpError(403, <<"Access denied">>)
               ELSE resp' = FileResponse(file_path, None, None)
    /\ OtherApps15

\* GET /download/basic/{file_name}
download_basic(file_name) ==
    /\ app = "15_main"
    /\ req' = [op |-> "download_basic", file_name |-> file_name]
    /\ LET safe_base_filename == basename(file_name)
           file_path == join(DOWNLOAD_DIR, safe_base_filename)
       IN IF ~isfile(file_path)
          THEN resp' = HttpError(404, <<"File not found">>)
          ELSE IF ~startswith(file_path, abspath(DOWNLOAD_DIR))
               THEN resp' = HttpError(403, <<"Access denied">>)
               ELSE resp' = FileResponse(file_path, None, None)
    /\ OtherApps15

\* GET /download/custom/{file_name}
download_custom(file_name) ==
    /\ app = "15_main"
    /\ req' = [op |-> "download_custom", file_name |-> file_name]
    /\ LET safe_base_filename == basename(file_name)
           file_path == join(DOWNLOAD_DIR, safe_base_filename)
           guessed == guess_type(file_path)
           media_type == IF guessed = None THEN "application/octet-stream" ELSE guessed
           download_filename == <<"d", "o", "w", "n", "l", "o", "a", "d", "_">>
                                    \o safe_base_filename
       IN IF ~isfile(file_path)
          THEN resp' = HttpError(404, <<"File not found">>)
          ELSE IF ~startswith(file_path, abspath(DOWNLOAD_DIR))
               THEN resp' = HttpError(403, <<"Access denied">>)
               ELSE resp' = FileResponse(file_path, download_filename, media_type)
    /\ OtherApps15

Next15 ==
    \/ \E file_name \in FileNames : download_basic(file_name)
    \/ \E file_name \in FileNames : download_custom(file_name)

-----------------------------------------------------------------------------
(* 09_main.py: exception handlers *)

\* items_db, which no route changes
items_db_09 == (1 :> [name |-> "keyboard"]) @@ (2 :> [name |-> "Mouse"])

\* the classes @app.exception_handler registers a function for
Handlers09 == {"UnicornException", "RequestValidationError"}

\* class UnicornException(Exception)
UnicornException(name, message) ==
    MkExc("UnicornException", 0, <<>>, NoHeaders, <<>>, name, message, <<>>)

UnicornNames == {"sparkle", "invalid", "rainbow"}
RawIds09 == {PInt(i) : i \in 1..3} \cup {PBad}
RawInputData == [value : {JNum(5), JNum(10), JNum(11), JStr("abc"), Absent}]

\* class InputData(BaseModel): value: int = Field(gt=10)
InputDataErrors(raw) ==
    IF raw.value.t = "absent" THEN <<Err(<<"body", "value">>, "missing", "Field required")>>
    ELSE IF raw.value.t # "num"
    THEN <<Err(<<"body", "value">>, "int_parsing",
               "Input should be a valid integer, unable to parse string as an integer")>>
    ELSE IF ~(raw.value.n > 10)
    THEN <<Err(<<"body", "value">>, "greater_than", "Input should be greater than 10")>>
    ELSE <<>>

OtherApps09 ==
    UNCHANGED <<app, tasks, items_db_12, item_next_id, items_db_06, fake_users_db, uploads>>

\* GET /items/{item_id}
read_item_09(rawid) ==
    /\ app = "09_main"
    /\ req' = [op |-> "read_item", item_id |-> rawid]
    /\ LET url == <<"/items/", IF rawid.t = "int" THEN str(rawid.n) ELSE "abc">>
       IN IF PathIntErrors(rawid) # <<>>
          THEN resp' = Raised(Handlers09, RequestValidationError(PathIntErrors(rawid)),
                              FALSE, url)
          ELSE IF rawid.n \notin DOMAIN items_db_09
               THEN resp' = Raised(Handlers09,
                                   HTTPException(404,
                                       <<"Item with ID ", str(rawid.n), " not found.">>,
                                       {<<"X-Error-Source", "Read Item Endpoint">>}, <<>>),
                                   TRUE, url)
               ELSE resp' = Returned(200, JsonObject(items_db_09[rawid.n]))
    /\ OtherApps09

\* GET /unicorns/{name}
generate_unicorn_error(name) ==
    /\ app = "09_main"
    /\ req' = [op |-> "generate_unicorn_error", name |-> name]
    /\ LET url == <<"/unicorns/", name>>
       IN IF name = "sparkle"
          THEN resp' = Raised(Handlers09,
                              UnicornException(name, <<"Sparkle caused a rainbow overload!">>),
                              TRUE, url)
          ELSE IF name = "invalid"
               THEN resp' = Raised(Handlers09,
                                   OtherException("ValueError",
                                                  <<"This is an unhandled ValueError">>),
                                   TRUE, url)
               ELSE resp' = Returned(200, JsonObject([unicorn_name |-> name, status |-> "ok"]))
    /\ OtherApps09

\* POST /validate
validate_endpoint(raw) ==
    /\ app = "09_main"
    /\ req' = [op |-> "validate_endpoint", body |-> raw]
    /\ IF InputDataErrors(raw) # <<>>
       THEN resp' = Raised(Handlers09, RequestValidationError(InputDataErrors(raw)),
                           FALSE, <<"/validate">>)
       ELSE resp' = Returned(200, JsonObject([message |-> "Data is valid!",
                                              received_value |-> raw.value.n]))
    /\ OtherApps09

Next09 ==
    \/ \E rawid \in RawIds09 : read_item_09(rawid)
    \/ \E name \in UnicornNames : generate_unicorn_error(name)
    \/ \E raw \in RawInputData : validate_endpoint(raw)

-----------------------------------------------------------------------------
(* 14_main.py: file upload.  uploads is the set of the paths the server has *)
(* created; an UploadFile is its client-supplied filename and what the      *)
(* disk does when the server saves it.                                      *)

\* UPLOAD_DIR = "./uploads" (the directory name shortened to "u")
UPLOAD_DIR == <<".", "/", "u">>

\* file.filename: None, or a string
NoFilename == [some |-> FALSE, s |-> <<>>]
Filename(s) == [some |-> TRUE, s |-> s]
\* file.filename or default
FilenameOr(filename, default) ==
    IF filename.some /\ filename.s # <<>> THEN filename.s ELSE default

\* io is what the disk does when the file is written: "none" when the
\* writes succeed, "write" when out_file.write raises
UploadFiles ==
    {[filename |-> Filename(<<"a">>), io |-> "write"],
     [filename |-> Filename(<<".", ".", "/", "b">>), io |-> "none"],
     [filename |-> Filename(<<".", ".">>), io |-> "none"],
     [filename |-> NoFilename, io |-> "none"]}

\* the directories a destination can name: UPLOAD_DIR (made by os.makedirs)
\* and the working directory
isdir_14(path) == normpath(path) \in {normpath(UPLOAD_DIR), <<".">>}

\* how the try block of a save ends: "open" when aiofiles.open raises
\* (the destination is a directory), "write" when out_file.write raises
\* after the file was created, "none" when the file is saved
SaveOutcome(destination, io) == IF isdir_14(destination) THEN "open" ELSE io

\* str(e) of the exception a failed save raises
IoErrorText(outcome, destination) ==
    IF outcome = "open" THEN <<"[Errno 21] Is a directory: '">> \o destination \o <<"'">>
    ELSE <<"[Errno 28] No space left on device">>

\* the paths that exist after the try block of a save
AfterSave(fs, destination, outcome) ==
    IF outcome = "open" THEN fs ELSE fs \cup {destination}

OtherApps14 ==
    UNCHANGED <<app, tasks, items_db_12, item_next_id, items_db_06, fake_users_db>>

\* POST /files/upload-single/
upload_single_file(file) ==
    /\ app = "14_main"
    /\ req' = [op |-> "upload_single_file", file |-> file]
    /\ LET safe_filename == basename(FilenameOr(file.filename, <<"u", "p", "l", "o", "a", "d", "_", "f", "i", "l", "e">>))
           destination == join(UPLOAD_DIR, safe_filename)
           outcome == SaveOutcome(destination, file.io)
       IN /\ uploads' = AfterSave(uploads, destination, outcome)
          /\ IF outcome # "none"
             THEN resp' = Raised(NoHandlers,
                                 HTTPException(500,
                                     <<"Could not dave file: ">> \o IoErrorText(outcome, destination),
                                     NoHeaders, IoErrorText(outcome, destination)),
                                 TRUE, <<>>)
             ELSE resp' = Returned(200, JsonObject([filename |-> file.filename,
                                                    content_type |-> "text/plain",
                                                    save_path |-> destination]))
    /\ OtherApps14

\* a loop that lets the first failed save end the request
RECURSIVE save_files_until_error(_, _, _)
save_files_until_error(files, saved_files, fs) ==
    IF files = <<>> THEN [saved_files |-> saved_files, fs |-> fs, error |-> <<>>]
    ELSE LET file == Head(files)
             safe_filename ==
                 basename(FilenameOr(file.filename,
                     <<"u", "p", "l", "o", "a", "d", "e", "d", "_", "f", "i", "l", "e", "_">> \o <<str(Len(saved_files))>>))
             destination == join(UPLOAD_DIR, safe_filename)
             outcome == SaveOutcome(destination, file.io)
         IN IF outcome = "none"
            THEN save_files_until_error(Tail(files),
                     Append(saved_files, [filename |-> file.filename, save_path |-> destination]),
                     AfterSave(fs, destination, outcome))
            ELSE [saved_files |-> saved_files, fs |-> AfterSave(fs, destination, outcome),
                  error |-> IoErrorText(outcome, destination)]

\* the loop of upload_multiple_files: one entry per file, in request order
RECURSIVE save_files(_, _, _)
save_files(files, saved_files, fs) ==
    IF files = <<>> THEN [saved_files |-> saved_files, fs |-> fs, error |-> <<>>]
    ELSE LET file == Head(files)
             safe_filename ==
                 basename(FilenameOr(file.filename,
                     <<"u", "p", "l", "o", "a", "d", "e", "d", "_", "f", "i", "l", "e", "_">> \o <<str(Len(saved_files))>>))
             destination == join(UPLOAD_DIR, safe_filename)
             outcome == SaveOutcome(destination, file.io)
         IN save_files(Tail(files),
                Append(saved_files,
                       IF outcome = "none"
                       THEN [filename |-> file.filename, save_path |-> destination]
                       ELSE [filename |-> file.filename,
                             error |-> IoErrorText(outcome, destination)]),
                AfterSave(fs, destination, outcome))

\* POST /files/upload-multiple/
upload_multiple_files(files) ==
    /\ app = "14_main"
    /\ req' = [op |-> "upload_multiple_files", files |-> files]
    /\ \E done \in {save_files(files, <<>>, uploads)} :
          /\ uploads' = done.fs
          /\ IF done.error # <<>>    \* an exception that left the loop
             THEN resp' = Raised(NoHandlers, OtherException("OSError", done.error), TRUE, <<>>)
             ELSE resp' = Returned(200,
                     JsonObject([message |-> <<str(Len(done.saved_files)), " files processed.">>,
                                 details |-> done.saved_files]))
    /\ OtherApps14

\* the query parameter notes: Optional[str] = None
Notes == {None, "first draft"}

\* POST /files/upload-with-form/ : after the basename the route function
\* names os.path.goin, an attribute the module os.path does not have, and
\* the AttributeError leaves the function
upload_file_and_form(file, notes) ==
    /\ app = "14_main"
    /\ req' = [op |-> "upload_file_and_form", file |-> file, notes |-> notes]
    /\ resp' = Raised(NoHandlers,
                      OtherException("AttributeError",
                          <<"module 'posixpath' has no attribute 'goin'">>),
                      TRUE, <<>>)
    /\ UNCHANGED uploads
    /\ OtherApps14

Next14 ==
    \/ \E file \in UploadFiles : upload_single_file(file)
    \/ \E files \in SeqUpTo(UploadFiles, MaxFiles) \ {<<>>} : upload_multiple_files(files)
    \/ \E file \in UploadFiles, notes \in Notes : upload_file_and_form(file, notes)

-----------------------------------------------------------------------------
(* 06_main.py: the validated item.  A string is a sequence of characters;   *)
(* a float is modelled by an integer.                                       *)

\* a raw JSON value of a body of 06_main.py: t is its JSON type ("absent"
\* for a missing key), s the characters of a string or the elements of a
\* list, n the number
J06(t, s, n) == [t |-> t, s |-> s, n |-> n]
Absent06 == J06("absent", <<>>, 0)
\* the None of an Optional field
None06 == J06("null", <<>>, 0)

\* Field(min_length=3, max_length=50) of name
NameMinLength == 3
NameMaxLength == 50
\* Field(max_length=300) of description
DescriptionMaxLength == 300
\* Field(gt=0, le=100000.0) of price
PriceGt == 0
PriceLe == 100000
\* Field(gt=0) of tax
TaxGt == 0
\* Field(min_length=1, max_length=5) of tag
TagMinLength == 1
TagMaxLength == 5

\* the letters of the model, lower case and upper case
LowerLetters == <<"a", "b", "c", "d", "e", "i", "m", "n", "p", "y">>
UpperLetters == <<"A", "B", "C", "D", "E", "I", "M", "N", "P", "Y">>
IndexIn(letters, c) == CHOOSE i \in DOMAIN letters : letters[i] = c
IsLower(c) == c \in Range(LowerLetters)
IsUpper(c) == c \in Range(UpperLetters)
IsCased(c) == IsLower(c) \/ IsUpper(c)
LowerChar(c) == IF IsUpper(c) THEN LowerLetters[IndexIn(UpperLetters, c)] ELSE c
UpperChar(c) == IF IsLower(c) THEN UpperLetters[IndexIn(LowerLetters, c)] ELSE c

\* str.lower
lower(v) == [i \in DOMAIN v |-> LowerChar(v[i])]

\* a title() that returns the value as it is
title_unchanged(v) == v

\* str.title: a letter that follows a letter is lower-cased, any other
\* letter is upper-cased
title(v) ==
    [i \in DOMAIN v |->
        IF i > 1 /\ IsCased(v[i - 1]) THEN LowerChar(v[i]) ELSE UpperChar(v[i])]

\* sub in v
contains(v, sub) ==
    \E i \in 1..(Len(v) - Len(sub) + 1) : SubSeq(v, i, i + Len(sub) - 1) = sub

\* the errors of one field, each at the location ("body", field)
FieldErr(field, type, msg) == <<Err(<<"body", field>>, type, msg)>>

\* name: str = Field(min_length=3, max_length=50), then the field validator
\* name_must_not_be_admin
NameErrors(raw) ==
    IF raw.t = "absent" THEN FieldErr("name", "missing", "Field required")
    ELSE IF raw.t # "str" THEN FieldErr("name", "string_type", "Input should be a valid string")
    ELSE IF Len(raw.s) < NameMinLength
    THEN FieldErr("name", "string_too_short", "String should have at least 3 characters")
    ELSE IF Len(raw.s) > NameMaxLength
    THEN FieldErr("name", "string_too_long", "String should have at most 50 characters")
    ELSE IF contains(lower(raw.s), <<"a", "d", "m", "i", "n">>)
    THEN FieldErr("name", "value_error", "Value error, Item name cannot contain 'admin'")
    ELSE <<>>

\* description: Optional[str] = Field(default=None, max_length=300)
DescriptionErrors(raw) ==
    IF raw.t \in {"absent", "null"} THEN <<>>
    ELSE IF raw.t # "str"
    THEN FieldErr("description", "string_type", "Input should be a valid string")
    ELSE IF Len(raw.s) > DescriptionMaxLength
    THEN FieldErr("description", "string_too_long", "String should have at most 300 characters")
    ELSE <<>>

\* a price validation that takes gt=0 for ge=0
PriceErrors_ge(raw) ==
    IF raw.t = "absent" THEN FieldErr("price", "missing", "Field required")
    ELSE IF raw.t # "num"
    THEN FieldErr("price", "float_parsing",
                  "Input should be a valid number, unable to parse string as a number")
    ELSE IF ~(raw.n >= PriceGt)
    THEN FieldErr("price", "greater_than", "Input should be greater than 0")
    ELSE IF ~(raw.n <= PriceLe)
    THEN FieldErr("price", "less_than_equal", "Input should be less than or equal to 100000")
    ELSE <<>>

\* price: float = Field(gt=0, le=100000.0)
PriceErrors(raw) ==
    IF raw.t = "absent" THEN FieldErr("price", "missing", "Field required")
    ELSE IF raw.t # "num"
    THEN FieldErr("price", "float_parsing",
                  "Input should be a valid number, unable to parse string as a number")
    ELSE IF ~(raw.n > PriceGt)
    THEN FieldErr("price", "greater_than", "Input should be greater than 0")
    ELSE IF ~(raw.n <= PriceLe)
    THEN FieldErr("price", "less_than_equal", "Input should be less than or equal to 100000")
    ELSE <<>>

\* tax: Optional[float] = Field(default=None, gt=0)
TaxErrors(raw) ==
    IF raw.t \in {"absent", "null"} THEN <<>>
    ELSE IF raw.t # "num"
    THEN FieldErr("tax", "float_parsing",
                  "Input should be a valid number, unable to parse string as a number")
    ELSE IF ~(raw.n > TaxGt)
    THEN FieldErr("tax", "greater_than", "Input should be greater than 0")
    ELSE <<>>

\* the elements of a List[str]: one error for every element that is not a
\* string, at the location ("body", field, index), in element order
RECURSIVE ElementErrors(_, _, _)
ElementErrors(field, elements, index) ==
    IF elements = <<>> THEN <<>>
    ELSE (IF Head(elements).t # "str"
          THEN <<Err(<<"body", field, index>>, "string_type", "Input should be a valid string")>>
          ELSE <<>>)
         \o ElementErrors(field, Tail(elements), index + 1)

\* tag: List[str] = Field(default=[], min_length=1, max_length=5); the
\* default is not validated.  (The lists of the model that are too long
\* hold strings only.)
TagErrors(raw) ==
    IF raw.t = "absent" THEN <<>>
    ELSE IF raw.t # "list" THEN FieldErr("tag", "list_type", "Input should be a valid list")
    ELSE IF Len(raw.s) > TagMaxLength
    THEN FieldErr("tag", "too_long", "List should have at most 5 items after validation")
    ELSE IF ElementErrors("tag", raw.s, 0) # <<>> THEN ElementErrors("tag", raw.s, 0)
    ELSE IF Len(raw.s) < TagMinLength
    THEN FieldErr("tag", "too_short", "List should have at least 1 item after validation")
    ELSE <<>>

\* a validation that stops at the first field that fails
ItemErrors_06_first(raw) ==
    IF NameErrors(raw.name) # <<>> THEN NameErrors(raw.name)
    ELSE IF DescriptionErrors(raw.description) # <<>> THEN DescriptionErrors(raw.description)
    ELSE IF PriceErrors(raw.price) # <<>> THEN PriceErrors(raw.price)
    ELSE IF TaxErrors(raw.tax) # <<>> THEN TaxErrors(raw.tax)
    ELSE TagErrors(raw.tag)

\* validation of a JSON body against Item of 06_main.py: every field is
\* validated, in declaration order, and the errors are collected
ItemErrors_06(raw) ==
    NameErrors(raw.name) \o DescriptionErrors(raw.description) \o PriceErrors(raw.price)
        \o TaxErrors(raw.tax) \o TagErrors(raw.tag)

\* item.model_dump() of the validated Item: the validator's return value is
\* the name, absent optional fields take their defaults
model_dump_06(raw) ==
    [name |-> title(raw.name.s),
     description |-> IF raw.description.t = "absent" THEN None06 ELSE raw.description,
     price |-> raw.price.n,
     tax |-> IF raw.tax.t = "absent" THEN None06 ELSE raw.tax,
     tag |-> IF raw.tag.t = "absent" THEN <<>>
             ELSE [i \in DOMAIN raw.tag.s |-> raw.tag.s[i].s]]

\* the elements of the lists of the model: a string and a number
TagX == J06("str", <<"x">>, 0)
Tag1 == J06("num", <<>>, 1)

\* the bodies of the model: a valid body with at most two fields replaced
BaseBody06 ==
    [name |-> J06("str", <<"p", "e", "n">>, 0), description |-> Absent06,
     price |-> J06("num", <<>>, 10), tax |-> Absent06, tag |-> J06("list", <<TagX>>, 0)]
FieldValues06 ==
    [name |-> {J06("str", <<"m", "y", " ", "p", "c">>, 0), J06("str", <<"a", "b">>, 0),
               J06("str", <<"a", "d", "m", "i", "n">>, 0),
               J06("str", <<"M", "y", "A", "d", "M", "i", "n">>, 0), Absent06},
     description |-> {J06("num", <<>>, 5)},
     price |-> {J06("num", <<>>, 0 - 5), J06("num", <<>>, 0), J06("str", <<"a", "b", "c">>, 0),
                Absent06},
     tax |-> {J06("num", <<>>, 2), J06("num", <<>>, 0)},
     tag |-> {Absent06, J06("list", <<>>, 0), J06("list", <<Tag1, TagX, Tag1>>, 0),
              J06("list", <<TagX, TagX, TagX, TagX, TagX, TagX>>, 0)}]
RawBodies06 ==
    {BaseBody06}
    \cup {[BaseBody06 EXCEPT ![f] = v] : f \in {"name"}, v \in FieldValues06.name}
    \cup {[BaseBody06 EXCEPT ![f] = v] : f \in {"description"}, v \in FieldValues06.description}
    \cup {[BaseBody06 EXCEPT ![f] = v] : f \in {"price"}, v \in FieldValues06.price}
    \cup {[BaseBody06 EXCEPT ![f] = v] : f \in {"tax"}, v \in FieldValues06.tax}
    \cup {[BaseBody06 EXCEPT ![f] = v] : f \in {"tag"}, v \in FieldValues06.tag}
    \cup {[BaseBody06 EXCEPT !.name = v, !.price = w] :
              v \in FieldValues06.name, w \in FieldValues06.price}
    \cup {[BaseBody06 EXCEPT !.name = v, !.tag = w] :
              v \in FieldValues06.name, w \in FieldValues06.tag}
    \cup {[BaseBody06 EXCEPT !.price = v, !.tax = w] :
              v \in FieldValues06.price, w \in FieldValues06.tax}
    \cup {[BaseBody06 EXCEPT !.tax = v, !.tag = w] :
              v \in FieldValues06.tax, w \in FieldValues06.tag}
RawIds06 == {PInt(i) : i \in 1..(MaxItems06 + 1)} \cup {PBad}

OtherApps06 == UNCHANGED <<app, tasks, items_db_12, item_next_id, fake_users_db, uploads>>

\* a create_item that stores the body before it is validated
create_item_06_unvalidated(raw) ==
    /\ app = "06_main"
    /\ req' = [op |-> "create_item", body |-> raw]
    /\ Len(items_db_06) < MaxItems06
    /\ items_db_06' = Append(items_db_06, raw)
    /\ IF ItemErrors_06(raw) # <<>>
       THEN resp' = Default422(ItemErrors_06(raw))
       ELSE resp' = Returned(201, JsonObject([item_id |-> Len(items_db_06) + 1]))
    /\ OtherApps06

\* POST /items/ ; the store has the keys 1..len(items_db), so it is held
\* as a sequence
create_item_06(raw) ==
    /\ app = "06_main"
    /\ req' = [op |-> "create_item", body |-> raw]
    /\ IF ItemErrors_06(raw) # <<>>
       THEN /\ resp' = Default422(ItemErrors_06(raw))
            /\ UNCHANGED items_db_06
       ELSE /\ Len(items_db_06) < MaxItems06
            /\ LET item_id == Len(items_db_06) + 1
               IN /\ items_db_06' = [k \in DOMAIN items_db_06 \cup {item_id} |->
                                        IF k = item_id THEN model_dump_06(raw)
                                        ELSE items_db_06[k]]
                  /\ resp' = Returned(201,
                          JsonObject([item_id |-> item_id] @@ items_db_06'[item_id]))
    /\ OtherApps06

\* a read_item that answers a missing id with an empty item
read_item_06_get(rawid) ==
    /\ app = "06_main"
    /\ req' = [op |-> "read_item", item_id |-> rawid]
    /\ IF PathIntErrors(rawid) # <<>>
       THEN resp' = Default422(PathIntErrors(rawid))
       ELSE IF rawid.n \notin DOMAIN items_db_06
            THEN resp' = Returned(200, JsonObject([item_id |-> rawid.n]))
            ELSE resp' = Returned(200,
                     JsonObject([item_id |-> rawid.n] @@ items_db_06[rawid.n]))
    /\ UNCHANGED items_db_06
    /\ OtherApps06

\* GET /items/{item_id}
read_item_06(rawid) ==
    /\ app = "06_main"
    /\ req' = [op |-> "read_item", item_id |-> rawid]
    /\ IF PathIntErrors(rawid) # <<>>
       THEN resp' = Default422(PathIntErrors(rawid))
       ELSE IF rawid.n \notin DOMAIN items_db_06
            THEN resp' = HttpError(404, <<"Item not found">>)
            ELSE resp' = Returned(200,
                     JsonObject([item_id |-> rawid.n] @@ items_db_06[rawid.n]))
    /\ UNCHANGED items_db_06
    /\ OtherApps06

Next06 ==
    \/ \E raw \in RawBodies06 : create_item_06(raw)
    \/ \E rawid \in RawIds06 : read_item_06(rawid)

-----------------------------------------------------------------------------
(* POST /items/ requests in flight together, in 12_main.py and 06_main.py.  *)
(* The server runs one task per request on one event loop: a task is        *)
(* suspended while the body of its request is read and while its response   *)
(* is sent, and other tasks run meanwhile.  create_item is a coroutine       *)
(* function without an await, so its body runs without a suspension.        *)

Tasks == 1..MaxTasks
IdleTask == [pc |-> "idle"]

\* the bodies of the requests in flight
TaskBodies ==
    IF app = "12_main"
    THEN {raw \in RawBodies12 : raw.price # JNum(75) /\ raw.name # Absent}
    ELSE {BaseBody06, [BaseBody06 EXCEPT !.name = J06("str", <<"m", "y", " ", "p", "c">>, 0)],
          [BaseBody06 EXCEPT !.price = J06("num", <<>>, 0 - 5)]}

TaskFrame == UNCHANGED <<app, fake_users_db, uploads, req, resp>>
StoresUnchanged == UNCHANGED <<items_db_12, item_next_id, items_db_06>>

\* a POST /items/ arrives and a task is started for it
task_receive(t, raw) ==
    /\ app \in {"12_main", "06_main"}
    /\ tasks[t].pc = "idle"
    /\ tasks' = [tasks EXCEPT ![t] = [pc |-> "received", body |-> raw]]
    /\ StoresUnchanged
    /\ TaskFrame

\* the body was read: it is validated against Item (item: Item), and a body
\* that fails is answered 422
task_validate(t) ==
    /\ tasks[t].pc = "received"
    /\ LET raw == tasks[t].body
           errors == IF app = "12_main" THEN ItemErrors_12(raw) ELSE ItemErrors_06(raw)
       IN tasks' = [tasks EXCEPT ![t] =
                       IF errors # <<>>
                       THEN [pc |-> "done", body |-> raw, resp |-> Default422(errors)]
                       ELSE [pc |-> "validated", body |-> raw]]
    /\ StoresUnchanged
    /\ TaskFrame

\* a create_item of 12_main.py that is suspended between the store of the
\* item and the increment of item_next_id
task_create_item_12_suspended(t) ==
    /\ app = "12_main"
    /\ \/ /\ tasks[t].pc = "validated"
          /\ items_db_12' = (item_next_id :> model_dump_12(tasks[t].body)) @@ items_db_12
          /\ tasks' = [tasks EXCEPT ![t] =
                          [pc |-> "suspended", body |-> tasks[t].body, id |-> item_next_id,
                           value |-> [id |-> item_next_id] @@ model_dump_12(tasks[t].body)]]
          /\ UNCHANGED item_next_id
       \/ /\ tasks[t].pc = "suspended"
          /\ item_next_id' = item_next_id + 1
          /\ tasks' = [tasks EXCEPT ![t].pc = "returned"]
          /\ UNCHANGED items_db_12
    /\ UNCHANGED items_db_06
    /\ TaskFrame

\* the body of create_item of 12_main.py
task_create_item_12(t) ==
    /\ app = "12_main"
    /\ tasks[t].pc = "validated"
    /\ LET created_item_info == [id |-> item_next_id] @@ model_dump_12(tasks[t].body)
       IN /\ items_db_12' = (item_next_id :> model_dump_12(tasks[t].body)) @@ items_db_12
          /\ item_next_id' = item_next_id + 1
          /\ tasks' = [tasks EXCEPT ![t] =
                          [pc |-> "returned", body |-> tasks[t].body, id |-> item_next_id,
                           value |-> created_item_info]]
    /\ UNCHANGED items_db_06
    /\ TaskFrame

\* the body of create_item of 06_main.py
task_create_item_06(t) ==
    /\ app = "06_main"
    /\ tasks[t].pc = "validated"
    /\ LET item_id == Len(items_db_06) + 1
       IN /\ items_db_06' = [k \in DOMAIN items_db_06 \cup {item_id} |->
                                IF k = item_id THEN model_dump_06(tasks[t].body)
                                ELSE items_db_06[k]]
          /\ tasks' = [tasks EXCEPT ![t] =
                          [pc |-> "returned", body |-> tasks[t].body, id |-> item_id,
                           value |-> [item_id |-> item_id] @@ items_db_06'[item_id]]]
    /\ UNCHANGED <<items_db_12, item_next_id>>
    /\ TaskFrame

\* the returned value is shaped and sent with status 201
task_respond(t) ==
    /\ tasks[t].pc = "returned"
    /\ tasks' = [tasks EXCEPT ![t] =
                    [pc |-> "done", body |-> tasks[t].body, id |-> tasks[t].id,
                     resp |-> IF app = "12_main"
                              THEN Shaped(201, Item_12, tasks[t].value)
                              ELSE Returned(201, JsonObject(tasks[t].value))]]
    /\ StoresUnchanged
    /\ TaskFrame

NextTasks ==
    \/ \E t \in Tasks, raw \in TaskBodies : task_receive(t, raw)
    \/ \E t \in Tasks : task_validate(t)
    \/ \E t \in Tasks : task_create_item_12(t)
    \/ \E t \in Tasks : task_create_item_06(t)
    \/ \E t \in Tasks : task_respond(t)

-----------------------------------------------------------------------------
(* The specification *)

Apps == {"06_main", "09_main", "10_main", "11_main", "12_main", "14_main", "15_main"}

Init ==
    /\ app \in Apps
    /\ items_db_12 = (1 :> [name |-> "Laptop", price |-> 1200]) @@
                     (2 :> [name |-> "keyboard", price |-> 75])
    /\ item_next_id = 3
    /\ items_db_06 = <<>>
    /\ fake_users_db = <<>>
    /\ uploads = {}
    /\ req = NoReq
    /\ resp = NoResp
    /\ tasks = [t \in Tasks |-> IdleTask]

Next ==
    \/ Next12
    \/ Next10
    \/ Next15
    \/ Next09
    \/ Next14
    \/ Next06
    \/ Next11

Spec == Init /\ [][Next]_vars

\* the specifications of single applications and of groups of them
Init12 == Init /\ app = "12_main"
Spec12 == Init12 /\ [][Next12]_vars
Init1012 == Init /\ app \in {"10_main", "12_main"}
Spec1012 == Init1012 /\ [][Next10 \/ Next12]_vars
Init15 == Init /\ app = "15_main"
Spec15 == Init15 /\ [][Next15]_vars
Init14 == Init /\ app = "14_main"
Spec14 == Init14 /\ [][Next14]_vars
Init06 == Init /\ app = "06_main"
Spec06 == Init06 /\ [][Next06]_vars
Init060910 == Init /\ app \in {"06_main", "09_main", "10_main"}
Spec060910 == Init060910 /\ [][Next06 \/ Next09 \/ Next10]_vars
Init0914 == Init /\ app \in {"09_main", "14_main"}
Spec0914 == Init0914 /\ [][Next09 \/ Next14]_vars
Init0612 == Init /\ app \in {"06_main", "12_main"}
Spec0612 == Init0612 /\ [][Next06 \/ Next12]_vars
\* the POST /items/ requests of 06_main.py and 12_main.py, handled together
SpecTasks == Init0612 /\ [][NextTasks]_vars
Init1112 == Init /\ app \in {"11_main", "12_main"}
Spec1112 == Init1112 /\ [][Next11 \/ Next12]_vars

-----------------------------------------------------------------------------
(* Claims *)

Ids12 == 1..(MaxId + 1)

\* the effect of one DELETE /items/{item_id} step on an id of 12_main.py
DeleteEffect12(id) ==
    (req'.op = "delete_item" /\ req'.item_id = PInt(id)) =>
        IF id \in DOMAIN items_db_12
        THEN /\ resp'.status = 204
             /\ resp'.body = [kind |-> "empty"]
             /\ DOMAIN items_db_12' = DOMAIN items_db_12 \ {id}
             /\ \A k \in DOMAIN items_db_12' : items_db_12'[k] = items_db_12[k]
        ELSE /\ resp'.status = 404
             /\ items_db_12' = items_db_12

\* an id that was assigned and is no longer a key: a deleted id
Deleted12(id) == id < item_next_id /\ id \notin DOMAIN items_db_12

\* C1 (as stated): DELETE /items/{item_id} of 12_main.py answers 404 and
\* leaves the store unchanged when item_id is not a key; when it is a key it
\* answers 204 with no body and removes the key; a deleted id never becomes
\* a key again, and every later delete or update addressed to it answers 404.
C1_Original ==
    [][\A id \in Ids12 :
        /\ DeleteEffect12(id)
        /\ Deleted12(id) =>
              /\ id \notin DOMAIN items_db_12'
              /\ (req'.op \in {"delete_item", "update_item"} /\ req'.item_id = PInt(id)) =>
                    resp'.status = 404
    ]_vars

\* C1 (amended): as C1, but the 404 is promised for every later delete and
\* for every later update whose payload passes validation; an update with
\* an invalid payload is rejected with 422 before the handler runs, and
\* leaves the deleted id absent.
C1_DeleteThen404 ==
    [][\A id \in Ids12 :
        /\ DeleteEffect12(id)
        /\ Deleted12(id) =>
              /\ id \notin DOMAIN items_db_12'
              /\ (req'.op = "delete_item" /\ req'.item_id = PInt(id)) => resp'.status = 404
              /\ (req'.op = "update_item" /\ req'.item_id = PInt(id)) =>
                    IF ItemErrors_12(req'.body) = <<>>
                    THEN resp'.status = 404
                    ELSE resp'.status = 422 /\ ~resp'.invoked
    ]_vars

\* C1 witness: item 1 was deleted, a later create took id 3, and an update
\* addressed to id 1 was answered 404
C1_Witness ==
    /\ app = "12_main"
    /\ 1 \notin DOMAIN items_db_12
    /\ 3 \in DOMAIN items_db_12
    /\ req.op = "update_item" /\ req.item_id = PInt(1)
    /\ resp.status = 404

\* the fields of a JSON object in a response body
Fields(schema) == schema.required \cup schema.optional

\* C2: every value a route with a declared output schema returns normally is
\* sent with the declared fields only: no password in a /users response, no
\* owner_id or secret_code in an /items response (single or list element),
\* no generated id in the 201 body of POST /items/.
C2_OnlyDeclaredFields ==
    (resp.by = "route" /\ resp.body.kind \in {"object", "list"}) =>
        /\ (app = "10_main" /\ req.op \in {"create_user", "read_user"}) =>
              /\ DOMAIN resp.body.obj = Fields(UserOut)
              /\ "password" \notin DOMAIN resp.body.obj
        /\ (app = "10_main" /\ req.op = "read_single_item") =>
              /\ DOMAIN resp.body.obj = Fields(ItemPublic)
              /\ {"owner_id", "secret_code"} \cap DOMAIN resp.body.obj = {}
        /\ (app = "10_main" /\ req.op = "read_items") =>
              /\ Len(resp.body.items) = 3
              /\ \A i \in DOMAIN resp.body.items :
                    /\ DOMAIN resp.body.items[i] = Fields(ItemPublic)
                    /\ {"owner_id", "secret_code"} \cap DOMAIN resp.body.items[i] = {}
        /\ (app = "12_main" /\ req.op \in {"create_item", "update_item"}) =>
              /\ DOMAIN resp.body.obj = Fields(Item_12)
              /\ "id" \notin DOMAIN resp.body.obj

\* C2 witness: a user created with a password was answered 201 with the
\* UserOut fields
C2_Witness ==
    /\ app = "10_main"
    /\ req.op = "create_user" /\ req.body.password = JStr("pw1")
    /\ resp.status = 201
    /\ resp.body.obj.username = req.body.username.s
    /\ "alice" \in DOMAIN fake_users_db /\ fake_users_db["alice"].password = "pw1"

Downloads == {"download_basic", "download_custom"}

\* the file a download response transfers lies directly inside the root
ServedInsideRoot ==
    LET node == resolve(resp.body.path)
    IN /\ node \in FsFiles
       /\ SubSeq(node, 1, Len(node) - 1) = RootNode

\* C3: for every file_name, with ".." segments and "/" separators or not,
\* download_basic and download_custom answer 404 or 403 or transfer a file
\* that lies directly inside the download root; no file outside it is served.
C3_NoFileOutsideRoot ==
    (app = "15_main" /\ req.op \in Downloads) =>
        \/ resp.status \in {403, 404}
        \/ (resp.status = 200 /\ resp.body.kind = "file" /\ ServedInsideRoot)

\* C3 witness: "../../p" names the existing file /p outside the root and the
\* request was refused
C3_Witness ==
    /\ app = "15_main"
    /\ req.op = "download_basic"
    /\ req.file_name = <<".", ".", "/", ".", ".", "/", "p">>
    /\ isfile(join(DOWNLOAD_DIR, req.file_name))
    /\ resp.status \in {403, 404}

\* C4: when the basename of file_name names a regular file directly under
\* the download root, download_basic and download_custom return the file
\* transfer; 403 is answered only when the resolved path is not under the root.
C4_ExistingFileServed ==
    (app = "15_main" /\ req.op \in Downloads) =>
        LET file_path == join(DOWNLOAD_DIR, basename(req.file_name))
            node == resolve(file_path)
            under == node \in FsFiles /\ SubSeq(node, 1, Len(node) - 1) = RootNode
        IN /\ under => (resp.status = 200 /\ resp.body.kind = "file")
           /\ resp.status = 403 => ~under

\* C5: upload_multiple_files processes every file in request order and
\* answers with exactly one entry per file, in that order: an entry with an
\* error for each file whose save failed, an entry with the save path for
\* every other file; a failed save never stops the remaining files.
C5_OneEntryPerFile ==
    (app = "14_main" /\ req.op = "upload_multiple_files") =>
        /\ resp.status = 200
        /\ resp.body.kind = "object"
        /\ LET details == resp.body.obj.details
           IN /\ Len(details) = Len(req.files)
              /\ \A i \in DOMAIN req.files :
                    /\ details[i].filename = req.files[i].filename
                    /\ IF req.files[i].io # "none" \/ req.files[i].filename = Filename(<<".", ".">>)
                       THEN /\ DOMAIN details[i] = {"filename", "error"}
                            /\ details[i].error # <<>>
                       ELSE /\ DOMAIN details[i] = {"filename", "save_path"}
                            /\ details[i].save_path \in uploads

\* C5 witness: two files were uploaded, the save of the first failed, and
\* the answer lists two entries, the second with a save path
C5_Witness ==
    /\ app = "14_main"
    /\ req.op = "upload_multiple_files"
    /\ Len(req.files) = 2
    /\ req.files[1].io # "none" /\ req.files[2].io = "none"
    /\ Len(resp.body.obj.details) = 2
    /\ "error" \in DOMAIN resp.body.obj.details[1]
    /\ "save_path" \in DOMAIN resp.body.obj.details[2]

\* the violation of price > 0 in a body of 06_main.py
PriceNotPositive(body) == body.price.t = "num" /\ ~(body.price.n > PriceGt)

ItemKeys ==
    IF app = "06_main" THEN DOMAIN items_db_06
    ELSE IF app = "09_main" THEN DOMAIN items_db_09
    ELSE DOMAIN fake_items_db
ReadOps == {"read_item", "read_single_item"}
ReadApps == {"06_main", "09_main", "10_main"}

\* C7 (as stated): a GET of an item by an id that is not a key is answered
\* 404 with the body {"detail": "Item not found"} and leaves the store
\* unchanged; a GET of an id that is a key is never answered 404.
C7_Original ==
    [][\A id \in 1..4 :
        (app \in ReadApps /\ req'.op \in ReadOps /\ req'.item_id = PInt(id)) =>
            IF id \notin ItemKeys
            THEN /\ resp'.status = 404
                 /\ resp'.body = JsonObject([detail |-> <<"Item not found">>])
                 /\ items_db_06' = items_db_06
            ELSE resp'.status # 404
    ]_vars

\* C7 (amended): a GET of an item by an id that is not a key is answered 404
\* with a body {"detail": text} and leaves the store unchanged; the text is
\* "Item not found" in 06_main.py and 10_main.py and
\* "Item with ID <id> not found." (with the header X-Error-Source) in
\* 09_main.py; a GET of an id that is a key is never answered 404.
C7_NotFound ==
    [][\A id \in 1..4 :
        (app \in ReadApps /\ req'.op \in ReadOps /\ req'.item_id = PInt(id)) =>
            IF id \notin ItemKeys
            THEN /\ resp'.status = 404
                 /\ resp'.body = JsonObject([detail |->
                        IF app = "09_main"
                        THEN <<"Item with ID ", str(id), " not found.">>
                        ELSE <<"Item not found">>])
                 /\ app = "09_main" =>
                        resp'.headers = {<<"X-Error-Source", "Read Item Endpoint">>}
                 /\ items_db_06' = items_db_06
            ELSE resp'.status = 200
    ]_vars

\* C7 witness: an item was stored, and a GET of the id after it was answered
\* 404 "Item not found"
C7_Witness ==
    /\ app = "06_main"
    /\ Len(items_db_06) = 1
    /\ req.op = "read_item" /\ req.item_id = PInt(2)
    /\ resp.status = 404
    /\ resp.body = JsonObject([detail |-> <<"Item not found">>])

\* C8: an error raised while a request of 09_main.py is handled is answered
\* by exactly one handler, chosen by the kind of the error: UnicornException
\* by the registered handler (418), an HTTPException with its own status,
\* detail and headers, a request validation error by the validation handler
\* (400), any other error by the default with status 500; what the handler
\* returns is sent and is not handled again.
C8_OneHandlerPerError ==
    app = "09_main" =>
        /\ resp.exc.kind = "none" => (resp.ran = <<>> /\ resp.by \in {"route", "none"})
        /\ resp.exc.kind # "none" =>
              /\ Len(resp.ran) = 1
              /\ resp.by = resp.ran[1]
        /\ resp.exc.kind = "UnicornException" =>
              (resp.by = "unicorn_exception_handler" /\ resp.status = 418)
        /\ resp.exc.kind = "HTTPException" =>
              /\ resp.by = "http_exception_handler"
              /\ resp.status = resp.exc.status_code
              /\ resp.body = JsonObject([detail |-> resp.exc.detail])
              /\ resp.headers = resp.exc.headers
        /\ resp.exc.kind = "RequestValidationError" =>
              (resp.by = "validation_exception_handler" /\ resp.status = 400)
        /\ resp.exc.kind \notin {"none", "UnicornException", "HTTPException",
                                  "RequestValidationError"} =>
              (resp.by = "ServerErrorMiddleware" /\ resp.status = 500)

\* C8 witness: /unicorns/sparkle raised UnicornException and the registered
\* handler answered 418
C8_Witness ==
    /\ app = "09_main"
    /\ req.op = "generate_unicorn_error" /\ req.name = "sparkle"
    /\ resp.exc.kind = "UnicornException"
    /\ resp.status = 418
    /\ resp.ran = <<"unicorn_exception_handler">>

\* the texts a response body shows the client
BodyTexts ==
    IF resp.body.kind = "text" THEN Range(resp.body.text)
    ELSE IF resp.body.kind = "object" /\ "detail" \in DOMAIN resp.body.obj
    THEN Range(resp.body.obj.detail)
    ELSE {}

\* the text of the internal error behind a response: the message of an
\* exception that is no HTTPException, and the message of the exception
\* that was being handled when an HTTPException was raised
InternalErrorTexts ==
    Range(resp.exc.context)
        \cup (IF resp.exc.kind = "HTTPException" THEN {} ELSE Range(resp.exc.text))

\* C9: a response with status 500 has a generic body; the text of the
\* internal error never appears in it, for an unhandled error of a route
\* and for a failed file write of an upload alike.
C9_Generic500 ==
    resp.status = 500 => BodyTexts \cap InternalErrorTexts = {}

\* the validation errors of the request, for the routes of 06_main.py and
\* 12_main.py
RequestErrors(r) ==
    IF app = "06_main"
    THEN IF r.op = "create_item" THEN ItemErrors_06(r.body) ELSE PathIntErrors(r.item_id)
    ELSE IF r.op = "create_item" THEN ItemErrors_12(r.body)
    ELSE IF r.op = "delete_item" THEN PathIntErrors(r.item_id)
    ELSE IF r.op = "update_item" THEN PathIntErrors(r.item_id) \o ItemErrors_12(r.body)
    ELSE <<>>

\* C10: when decoding or validating the inputs of a request fails (path
\* parameter or JSON body), the route function is not invoked: the item
\* store is unchanged and a rejected POST /items/ consumes no id.
C10_RejectedLeavesStore ==
    [][(app \in {"06_main", "12_main"} /\ RequestErrors(req') # <<>>) =>
          /\ ~resp'.invoked
          /\ resp'.exc.kind = "RequestValidationError"
          /\ items_db_06' = items_db_06
          /\ items_db_12' = items_db_12
          /\ item_next_id' = item_next_id
    ]_vars

\* C10 witness: after one item was created, a POST with an invalid body was
\* rejected and the next id is still the one after the created item
C10_Witness ==
    /\ app = "12_main"
    /\ DOMAIN items_db_12 = {1, 2, 3}
    /\ req.op = "create_item" /\ req.body.name = Absent
    /\ resp.status = 422
    /\ item_next_id = 4


-----------------------------------------------------------------------------
(* C11: a Response object returned by a route function is the response *)

\* C11: when a route function returns a Response object, the response sent
\* has the status, the headers, the media type and the body of that object:
\* the response_model, the status_code and the response_class the route
\* declares are not applied to it (GET /legacy-data sends the XML text with
\* status 200 under response_model=Item; GET /mixed-response?return_html=true
\* sends HTML under response_class=PlainTextResponse).
C11_ResponseObjectSentAsIs ==
    /\ (app = "12_main" /\ req.op = "get_legacy_data") =>
           /\ resp.status = 200
           /\ resp.headers = NoHeaders
           /\ resp.body = Content("application/xml", legacy_content)
           /\ resp.ran = <<>>
    /\ (app = "11_main" /\ req.op = "mixed_response" /\ req.return_html \in {"true", "1"}) =>
           /\ resp.status = 200
           /\ resp.body = Content("text/html; charset=utf-8",
                                  <<"<h1>This is HTML overriding PlainText</h1>">>)
    /\ (app = "11_main" /\ req.op = "create_resource") =>
           /\ resp.status = 201
           /\ resp.body = JsonObject([resource_id |-> 123, status |-> "created"])
    /\ (app = "11_main" /\ req.op = "read_text") =>
           /\ resp.status = 200
           /\ resp.body = Content("text/plain; charset=utf-8",
                                  <<"This is a plain text response from FastAPI.">>)
    /\ (app = "11_main" /\ req.op = "redirect_to_docs") =>
           /\ resp.status = 307
           /\ resp.headers = {<<"location", "/docs">>}
           /\ resp.body = [kind |-> "empty"]
    /\ (app = "11_main" /\ req.op = "redirect_external") =>
           /\ resp.status = 302
           /\ resp.headers = {<<"location", "<https://fastapi.tiangolo.com/>">>}
           /\ resp.body = [kind |-> "empty"]

\* GET /legacy-data answered with the XML text, after an item was created
C11_Witness ==
    /\ app = "12_main"
    /\ req.op = "get_legacy_data"
    /\ resp.status = 200
    /\ resp.body.kind = "content"
    /\ resp.body.media_type = "application/xml"
    /\ item_next_id > 3

-----------------------------------------------------------------------------
(* C12: uploaded files are written directly inside the upload directory *)

\* the path names an entry of the upload directory itself
DirectlyInsideUploadDir(path) ==
    LET comps == split(normpath(path))
        dir == split(normpath(UPLOAD_DIR))
    IN /\ Len(comps) = Len(dir) + 1
       /\ SubSeq(comps, 1, Len(dir)) = dir
       /\ comps[Len(comps)] \notin {<<>>, <<".">>, <<".", ".">>}

\* the last component of a client-supplied filename
LastComponent(filename) == LET comps == split(filename.s) IN comps[Len(comps)]

\* C12: every file upload_single_file and upload_multiple_files write is an
\* entry of the upload directory itself, whatever filename the client sent
\* (with directory components, with ".." segments, or none at all), and the
\* save path reported for a file with a filename is the upload directory
\* joined with the last component of that filename.
C12_UploadsStayInUploadDir ==
    /\ \A path \in uploads : DirectlyInsideUploadDir(path)
    /\ (app = "14_main" /\ req.op = "upload_single_file" /\ resp.status = 200) =>
           /\ resp.body.obj.save_path \in uploads
           /\ req.file.filename.some =>
                  resp.body.obj.save_path =
                      UPLOAD_DIR \o <<"/">> \o LastComponent(req.file.filename)
    /\ (app = "14_main" /\ req.op = "upload_multiple_files" /\ resp.status = 200) =>
           \A i \in DOMAIN resp.body.obj.details :
               LET entry == resp.body.obj.details[i]
               IN "save_path" \in DOMAIN entry =>
                     /\ entry.save_path \in uploads
                     /\ entry.filename.some =>
                            entry.save_path =
                                UPLOAD_DIR \o <<"/">> \o LastComponent(entry.filename)

\* a single upload named "../b" was saved as b in the upload directory
C12_Witness ==
    /\ app = "14_main"
    /\ req.op = "upload_single_file"
    /\ req.file.filename = Filename(<<".", ".", "/", "b">>)
    /\ resp.status = 200
    /\ resp.body.obj.save_path = <<".", "/", "u", "/", "b">>
    /\ <<".", "/", "u", "/", "b">> \in uploads

-----------------------------------------------------------------------------
(* C13: the validation errors of an item payload *)

\* the fields of Item of 06_main.py, in declaration order
Fields06 == <<"name", "description", "price", "tax", "tag">>

\* the errors of one field of a body
FieldErrors06(body, field) ==
    IF field = "name" THEN NameErrors(body.name)
    ELSE IF field = "description" THEN DescriptionErrors(body.description)
    ELSE IF field = "price" THEN PriceErrors(body.price)
    ELSE IF field = "tax" THEN TaxErrors(body.tax)
    ELSE TagErrors(body.tag)

\* the fields of a body that violate a constraint, in declaration order
ViolatingFields(body) ==
    SelectSeq(Fields06, LAMBDA field : FieldErrors06(body, field) # <<>>)

\* the field each entry of an error sequence is about
ErrorFields(errors) == [i \in DOMAIN errors |-> errors[i].loc[2]]

\* a sequence without the entries that repeat the one before them
RECURSIVE Squeezed(_)
Squeezed(seq) ==
    IF Len(seq) <= 1 THEN seq
    ELSE IF seq[1] = seq[2] THEN Squeezed(Tail(seq))
    ELSE <<seq[1]>> \o Squeezed(Tail(seq))

-----------------------------------------------------------------------------
(* C14: PUT /items/{item_id} *)

\* C14: a PUT for an id of the store with a valid payload is answered 304
\* when the payload equals the stored data, which stay as they are; when it
\* differs the payload replaces the stored data and is returned with
\* status 200.
C14_NotModifiedOrUpdated ==
    [][(/\ app = "12_main"
        /\ req'.op = "update_item"
        /\ PathIntErrors(req'.item_id) = <<>>
        /\ ItemErrors_12(req'.body) = <<>>
        /\ req'.item_id.n \in DOMAIN items_db_12)
       => IF items_db_12[req'.item_id.n] = model_dump_12(req'.body)
          THEN /\ resp'.status = 304
               /\ items_db_12' = items_db_12
          ELSE /\ resp'.status = 200
               /\ resp'.body = JsonObject(model_dump_12(req'.body))
               /\ items_db_12' = [items_db_12 EXCEPT ![req'.item_id.n] = model_dump_12(req'.body)]
      ]_vars

-----------------------------------------------------------------------------
(* C15: POST /files/upload-with-form/ *)

\* C15: an upload with form data is answered 200 with the filename of the
\* file, the notes and the save path "simulated_save", and writes no file.
C15_UploadWithFormSucceeds ==
    [][(app = "14_main" /\ req'.op = "upload_file_and_form")
       => /\ resp'.status = 200
          /\ resp'.body = JsonObject([filename |-> req'.file.filename, notes |-> req'.notes,
                                      save_path |-> "simulated_save"])
          /\ uploads' = uploads
      ]_vars

-----------------------------------------------------------------------------
(* C16: the stored name is the value the validator returned *)

\* t is v in title case: the same letters, and a letter of t is upper case
\* exactly when no letter precedes it
IsTitleCaseOf(t, v) ==
    /\ lower(t) = lower(v)
    /\ \A i \in DOMAIN t :
           IsCased(t[i]) => (IsUpper(t[i]) <=> (i = 1 \/ ~IsCased(t[i - 1])))

\* "admin" occurs in the name in some letter casing
HasAdmin(name) ==
    \E i \in 1..(Len(name) - 4) :
        lower(SubSeq(name, i, i + 4)) = <<"a", "d", "m", "i", "n">>

\* C16: in 06_main.py a payload whose name contains "admin" in any casing is
\* rejected and the store stays as it is; a created item is stored with the
\* title-cased form of the submitted name; no stored name contains "admin"
\* in any casing; and the item a create or a read returns is the stored one.
C16_StoredNameIsValidated ==
    [][/\ (app = "06_main" /\ req'.op = "create_item") =>
           /\ (req'.body.name.t = "str" /\ HasAdmin(req'.body.name.s)) =>
                  /\ resp'.status = 422
                  /\ items_db_06' = items_db_06
           /\ resp'.status = 201 =>
                  LET item_id == resp'.body.obj.item_id
                  IN /\ DOMAIN items_db_06' = DOMAIN items_db_06 \cup {item_id}
                     /\ IsTitleCaseOf(items_db_06'[item_id].name, req'.body.name.s)
                     /\ resp'.body.obj = [item_id |-> item_id] @@ items_db_06'[item_id]
           /\ \A k \in DOMAIN items_db_06' : ~HasAdmin(items_db_06'[k].name)
       /\ (app = "06_main" /\ req'.op = "read_item" /\ resp'.status = 200) =>
           /\ req'.item_id.n \in DOMAIN items_db_06
           /\ resp'.body.obj = [item_id |-> req'.item_id.n] @@ items_db_06[req'.item_id.n]
      ]_vars

\* the item submitted as "my pc" was created and is stored as "My Pc"
C16_Witness ==
    /\ app = "06_main"
    /\ req.op = "create_item"
    /\ req.body.name.s = <<"m", "y", " ", "p", "c">>
    /\ resp.status = 201
    /\ items_db_06[resp.body.obj.item_id].name = <<"M", "y", " ", "P", "c">>
    /\ resp.body.obj.name = <<"M", "y", " ", "P", "c">>

-----------------------------------------------------------------------------
(* C17: the tags of a stored item *)

\* C17: every item in the store of 06_main.py has between 1 and 5 tags,
\* whether its payload had a tag field or not.
C17_StoredTagsInRange ==
    \A k \in DOMAIN items_db_06 :
        /\ Len(items_db_06[k].tag) >= TagMinLength
        /\ Len(items_db_06[k].tag) <= TagMaxLength

-----------------------------------------------------------------------------
(* C18: the ids create_item assigns *)

\* C18: in 12_main.py item_next_id is greater than every key of items_db
\* and never decreases, the only key a request adds is the value the
\* counter had, that key was no key before and the items under the other
\* keys are kept; in 06_main.py the id a create assigns was no key of
\* items_db before and the items under the other keys are kept.
C18_FreshIds ==
    [][/\ item_next_id' >= item_next_id
       /\ \A k \in DOMAIN items_db_12' : k < item_next_id'
       /\ DOMAIN items_db_12' \ DOMAIN items_db_12 \subseteq {item_next_id}
       /\ (app = "12_main" /\ req'.op = "create_item" /\ resp'.status = 201) =>
              /\ item_next_id \notin DOMAIN items_db_12
              /\ DOMAIN items_db_12' = DOMAIN items_db_12 \cup {item_next_id}
              /\ \A k \in DOMAIN items_db_12 : items_db_12'[k] = items_db_12[k]
       /\ (app = "06_main" /\ req'.op = "create_item" /\ resp'.status = 201) =>
              /\ resp'.body.obj.item_id \notin DOMAIN items_db_06
              /\ DOMAIN items_db_06' = DOMAIN items_db_06 \cup {resp'.body.obj.item_id}
              /\ \A k \in DOMAIN items_db_06 : items_db_06'[k] = items_db_06[k]
      ]_vars

\* an item was created under id 3 after the item with id 1 was deleted
C18_Witness ==
    /\ app = "12_main"
    /\ req.op = "create_item"
    /\ resp.status = 201
    /\ item_next_id = 4
    /\ DOMAIN items_db_12 = {2, 3}

-----------------------------------------------------------------------------
(* C19: POST /items/ requests handled together *)

\* the tasks whose create_item has stored an item
Created == {t \in Tasks : "id" \in DOMAIN tasks[t]}

\* C19: however the POST /items/ requests in flight interleave, the creates
\* store their items under ids that differ from one another, the item of
\* each create stays in the store as it was submitted, the store holds one
\* more item for every create, and each create is answered 201.
C19_ConcurrentCreatesDistinct ==
    /\ \A t1, t2 \in Created : t1 # t2 => tasks[t1].id # tasks[t2].id
    /\ \A t \in Created : tasks[t].pc = "done" => tasks[t].resp.status = 201
    /\ app = "12_main" =>
           /\ \A t \in Created :
                  /\ tasks[t].id \in DOMAIN items_db_12
                  /\ items_db_12[tasks[t].id] = model_dump_12(tasks[t].body)
           /\ Cardinality(DOMAIN items_db_12) = 2 + Cardinality(Created)
    /\ app = "06_main" =>
           /\ \A t \in Created :
                  /\ tasks[t].id \in DOMAIN items_db_06
                  /\ items_db_06[tasks[t].id] = model_dump_06(tasks[t].body)
           /\ Len(items_db_06) = Cardinality(Created)

\* two creates of 12_main.py were in flight together and both were answered:
\* the second task stored its item first, under id 3, the first under id 4
C19_Witness ==
    /\ app = "12_main"
    /\ tasks[1].pc = "done" /\ tasks[2].pc = "done"
    /\ Created = {1, 2}
    /\ tasks[2].id = 3 /\ tasks[1].id = 4
    /\ tasks[1].resp.status = 201 /\ tasks[2].resp.status = 201
    /\ tasks[1].body # tasks[2].body

=============================================================================
